---------------------------- MODULE Spec2Model ----------------------------
(* Model of pants/base/build_environment.py (Git facade, get_git singleton) *)
(* and pants/goal/task_registrar.py (TaskRegistrar).                        *)
(*                                                                          *)
(* Text (bytes / str of process output, path strings) is a tuple of         *)
(* one-character strings; command-line arguments, messages and rendered     *)
(* results are TLA+ strings.                                                *)
EXTENDS Integers, Sequences, FiniteSets, TLC

VARIABLES
    _Git,      \* build_environment._Git, the module slot
    mounts,    \* number of times Git.mount has been invoked through get_git
    calls,     \* outcomes of the completed get_git() calls, oldest first
    pc,        \* per thread: position inside get_git()
    local,     \* per thread: the local variable `git` and the pending outcome
    handle,    \* the Git object the facade operations are applied to
    res,       \* record of the last facade / registrar operation and its result
    goals,     \* Goal registry: goal name -> ordered execution list
    registrar  \* the TaskRegistrar under construction / installation

vars == <<_Git, mounts, calls, pc, local, handle, res, goals, registrar>>

(***************************************************************************)
(* Bounds                                                                  *)
(***************************************************************************)
MaxCalls == 3
NThreads == 2

(***************************************************************************)
(* Python values                                                           *)
(***************************************************************************)
None == [none |-> TRUE]
NO == [uninitialized |-> TRUE]

Range(s) == {s[i] : i \in 1..Len(s)}

RECURSIVE Str(_)
Str(t) == IF t = <<>> THEN "" ELSE Head(t) \o Str(Tail(t))

RECURSIVE JoinWith(_, _)
JoinWith(sep, ss) ==
    IF ss = <<>> THEN ""
    ELSE IF Len(ss) = 1 THEN ss[1]
    ELSE ss[1] \o sep \o JoinWith(sep, Tail(ss))

(***************************************************************************)
(* str.strip / str.split / str.splitlines                                  *)
(***************************************************************************)
IsSpace(c) == c \in {" ", "\n"}

RECURSIVE lstrip(_)
lstrip(s) == IF s # <<>> /\ IsSpace(Head(s)) THEN lstrip(Tail(s)) ELSE s

RECURSIVE rstrip(_)
rstrip(s) ==
    IF s # <<>> /\ IsSpace(s[Len(s)]) THEN rstrip(SubSeq(s, 1, Len(s) - 1)) ELSE s

strip(s) == rstrip(lstrip(s))

\* str.split(): split on runs of whitespace, no empty pieces
RECURSIVE splitAcc(_, _, _)
splitAcc(s, cur, acc) ==
    IF s = <<>> THEN (IF cur = <<>> THEN acc ELSE Append(acc, cur))
    ELSE IF IsSpace(Head(s))
         THEN splitAcc(Tail(s), <<>>, IF cur = <<>> THEN acc ELSE Append(acc, cur))
         ELSE splitAcc(Tail(s), Append(cur, Head(s)), acc)

split(s) == splitAcc(s, <<>>, <<>>)

\* str.splitlines(): split at line breaks, a line may hold any other character
RECURSIVE splitlinesAcc(_, _, _)
splitlinesAcc(s, cur, acc) ==
    IF s = <<>> THEN (IF cur = <<>> THEN acc ELSE Append(acc, cur))
    ELSE IF Head(s) = "\n"
         THEN splitlinesAcc(Tail(s), <<>>, Append(acc, cur))
         ELSE splitlinesAcc(Tail(s), Append(cur, Head(s)), acc)

splitlines(s) == splitlinesAcc(s, <<>>, <<>>)

(***************************************************************************)
(* pathlib.PurePath: [abs, parts]                                          *)
(***************************************************************************)
RECURSIVE partsAcc(_, _, _)
partsAcc(s, cur, acc) ==
    LET keep(c) == c # <<>> /\ c # <<".">>
    IN  IF s = <<>> THEN (IF keep(cur) THEN Append(acc, cur) ELSE acc)
        ELSE IF Head(s) = "/"
             THEN partsAcc(Tail(s), <<>>, IF keep(cur) THEN Append(acc, cur) ELSE acc)
             ELSE partsAcc(Tail(s), Append(cur, Head(s)), acc)

PurePath(s) == [abs |-> s # <<>> /\ Head(s) = "/", parts |-> partsAcc(s, <<>>, <<>>)]

\* PurePath.__truediv__
PathJoin(a, b) == IF b.abs THEN b ELSE [abs |-> a.abs, parts |-> a.parts \o b.parts]

\* PurePath.__str__
PathStr(p) ==
    IF p.parts = <<>> THEN (IF p.abs THEN "/" ELSE ".")
    ELSE (IF p.abs THEN "/" ELSE "") \o JoinWith("/", [i \in 1..Len(p.parts) |-> Str(p.parts[i])])

IsPrefix(a, b) == Len(a) <= Len(b) /\ SubSeq(b, 1, Len(a)) = a

\* PurePath.relative_to: ValueError when `other` is not a leading part of `p`
PurePath_relative_to(p, other) ==
    IF p.abs = other.abs /\ IsPrefix(other.parts, p.parts)
    THEN [exc |-> "none",
          val |-> [abs |-> FALSE, parts |-> SubSeq(p.parts, Len(other.parts) + 1, Len(p.parts))]]
    ELSE [exc |-> "ValueError"]

\* os.getcwd()
Cwd == PurePath(<<"/", "w", "/", "d">>)

\* Path.resolve() on a path without symlinks
resolve(p) == IF p.abs THEN p ELSE PathJoin(Cwd, p)

(***************************************************************************)
(* class Git                                                               *)
(***************************************************************************)
\* What the operating system answers to one subprocess launch.
StdErrs == {[utf8 |-> TRUE, text |-> ""], [utf8 |-> TRUE, text |-> "fatal"],
            [utf8 |-> FALSE, text |-> ""]}

ProcResults(outs) ==
    [launched : {FALSE}, returncode : {0}, out : {<<>>}, err : {[utf8 |-> TRUE, text |-> ""]}]
    \cup [launched : {TRUE}, returncode : {1}, out : {<<>>}, err : StdErrs]
    \cup [launched : {TRUE}, returncode : {0}, out : outs, err : StdErrs]

Git__init__(worktree, gitdir, binary) ==
    LET wt == resolve(IF worktree = None THEN Cwd ELSE worktree)
    IN  [worktree |-> wt,
         _gitdir |-> IF gitdir = None THEN PathJoin(wt, PurePath(<<".", "g", "i", "t">>))
                     ELSE resolve(gitdir),
         _gitcmd |-> binary]

_invoke(cmd, os) ==
    IF ~os.launched
    THEN [exc |-> "GitException", msg |-> "Failed to execute command " \o JoinWith(" ", cmd)]
    ELSE [exc |-> "none", returncode |-> os.returncode, out |-> os.out, err |-> os.err]

_cleanse(output) == strip(output)

\* failure_msg "" stands for a falsy message (None or the empty string)
_check_result(cmd, result, failure_msg) ==
    IF result # 0
    THEN [exc |-> "GitException",
          msg |-> IF failure_msg # "" THEN failure_msg
                  ELSE JoinWith(" ", cmd) \o " failed with exit code " \o ToString(result)]
    ELSE [exc |-> "none"]

mount(subdir, binary, os) ==
    LET cmd == <<binary, "rev-parse", "--show-toplevel">>
        r == _invoke(cmd, os)
    IN  IF r.exc # "none" THEN r
        ELSE IF ~r.err.utf8 THEN [exc |-> "UnicodeDecodeError"]
        ELSE LET c == _check_result(cmd, r.returncode, r.err.text)
             IN  IF c.exc # "none" THEN c
                 ELSE [exc |-> "none",
                       val |-> Git__init__(PurePath(_cleanse(r.out)), None, "git")]

_create_git_cmdline(self, args) ==
    <<self._gitcmd, "--git-dir=" \o PathStr(self._gitdir),
      "--work-tree=" \o PathStr(self.worktree)>> \o args

_check_output(self, args, os) ==
    LET cmd == _create_git_cmdline(self, args)
        r == _invoke(cmd, os)
    IN  IF r.exc # "none" THEN r
        ELSE IF ~r.err.utf8 THEN [exc |-> "UnicodeDecodeError"]
        ELSE LET c == _check_result(cmd, r.returncode, r.err.text)
             IN  IF c.exc # "none" THEN c
                 ELSE [exc |-> "none", val |-> _cleanse(r.out)]

\* subprocess.call raises OSError itself when the binary cannot be launched
_check_call(self, args, os) ==
    LET cmd == _create_git_cmdline(self, args)
    IN  IF ~os.launched THEN [exc |-> "OSError"]
        ELSE _check_result(cmd, os.returncode, "")

commit_id(self, os) ==
    LET r == _check_output(self, <<"rev-parse", "HEAD">>, os)
    IN  IF r.exc # "none" THEN r ELSE [exc |-> "none", val |-> Str(r.val)]

branch_name(self, os) ==
    LET r == _check_output(self, <<"rev-parse", "--abbrev-ref", "HEAD">>, os)
    IN  IF r.exc # "none" THEN r
        ELSE [exc |-> "none", val |-> IF Str(r.val) = "HEAD" THEN "None" ELSE Str(r.val)]


_fix_git_relative_path(self, worktree_path, relative_to) ==
    LET r == PurePath_relative_to(PathJoin(self.worktree, PurePath(worktree_path)), relative_to)
    IN  IF r.exc # "none" THEN r ELSE [exc |-> "none", val |-> PathStr(r.val)]

\* {f(x) for x in files}: the first exception raised by f leaves the call
SetComprehension(results) ==
    IF \E r \in results : r.exc # "none"
    THEN CHOOSE r \in results : r.exc # "none"
    ELSE [exc |-> "none", val |-> {r.val : r \in results}]

\* from_commit "" stands for a falsy from_commit (None or the empty string);
\* os1, os2, os3 answer the launches of diff, diff <from_commit>...HEAD and
\* ls-files, in that order.
changed_files(self, from_commit, include_untracked, relative_to, os1, os2, os3) ==
    LET rel == IF relative_to # None THEN relative_to ELSE self.worktree
        rel_suffix == <<"--", PathStr(rel)>>
        uncommitted_changes == _check_output(self, <<"diff", "--name-only", "HEAD">> \o rel_suffix, os1)
        committed_changes ==
            _check_output(self, <<"diff", "--name-only", from_commit \o "...HEAD">> \o rel_suffix, os2)
        untracked ==
            _check_output(self, <<"ls-files", "--other", "--exclude-standard", "--full-name">>
                                \o rel_suffix, os3)
    IN  IF uncommitted_changes.exc # "none" THEN uncommitted_changes
        ELSE IF from_commit # "" /\ committed_changes.exc # "none" THEN committed_changes
        ELSE IF include_untracked /\ untracked.exc # "none" THEN untracked
        ELSE LET files == Range(splitlines(uncommitted_changes.val))
                     \cup (IF from_commit # "" THEN Range(split(committed_changes.val)) ELSE {})
                     \cup (IF include_untracked THEN Range(split(untracked.val)) ELSE {})
             IN  SetComprehension({_fix_git_relative_path(self, f, rel) : f \in files})

changes_in(self, diffspec, relative_to, os) ==
    LET rel == IF relative_to # None THEN relative_to ELSE self.worktree
        cmd == <<"diff-tree", "--no-commit-id", "--name-only", "-r", diffspec>>
        r == _check_output(self, cmd, os)
    IN  IF r.exc # "none" THEN r
        ELSE LET files == split(r.val)
             IN  SetComprehension({_fix_git_relative_path(self, strip(f), rel) : f \in Range(files)})

commit(self, message, os) == _check_call(self, <<"commit", "--all", "--message", message>>, os)

add(self, paths, os) ==
    _check_call(self, <<"add">> \o [i \in 1..Len(paths) |-> PathStr(paths[i])], os)

(***************************************************************************)
(* get_git(): the process-wide singleton                                   *)
(***************************************************************************)
\* What `git rev-parse --show-toplevel` and `git rev-parse --abbrev-ref HEAD`
\* may print.
MountOuts == {<<"/", "w", "\n">>, <<"/", "v", "\n">>}
BranchOuts == {<<"m", "a", "i", "n", "\n">>, <<"H", "E", "A", "D", "\n">>}

\* One whole call of get_git() from slot value `slot`; osM and osB are the
\* operating system's answers to the two subprocess launches it may make.
\* slot: the slot afterwards; exc: the exception leaving the call; ret: the
\* returned value; mounted: Git.mount was invoked; mountExc / mountVal: how
\* Git.mount ended.
\* get_git with the absent outcome not cached
get_git_retry_absent(slot, osM, osB) ==
    IF slot # NO /\ slot # None
    THEN [slot |-> slot, exc |-> "none", ret |-> slot, mounted |-> FALSE,
          mountExc |-> "none", mountVal |-> None]
    ELSE LET m == mount(None, "git", osM)
         IN  IF m.exc = "GitException"
             THEN [slot |-> None, exc |-> "none", ret |-> None, mounted |-> TRUE,
                   mountExc |-> m.exc, mountVal |-> None]
             ELSE IF m.exc # "none"
             THEN [slot |-> slot, exc |-> m.exc, ret |-> None, mounted |-> TRUE,
                   mountExc |-> m.exc, mountVal |-> None]
             ELSE LET b == branch_name(m.val, osB)
                  IN  IF b.exc = "GitException"
                      THEN [slot |-> None, exc |-> "none", ret |-> None, mounted |-> TRUE,
                            mountExc |-> "none", mountVal |-> m.val]
                      ELSE IF b.exc # "none"
                      THEN [slot |-> slot, exc |-> b.exc, ret |-> None, mounted |-> TRUE,
                            mountExc |-> "none", mountVal |-> m.val]
                      ELSE [slot |-> m.val, exc |-> "none", ret |-> m.val, mounted |-> TRUE,
                            mountExc |-> "none", mountVal |-> m.val]

get_git(slot, osM, osB) ==
    IF slot # NO
    THEN [slot |-> slot, exc |-> "none", ret |-> slot, mounted |-> FALSE,
          mountExc |-> "none", mountVal |-> None]
    ELSE LET m == mount(None, "git", osM)
         IN  IF m.exc = "GitException"
             THEN [slot |-> None, exc |-> "none", ret |-> None, mounted |-> TRUE,
                   mountExc |-> m.exc, mountVal |-> None]
             ELSE IF m.exc # "none"
             THEN [slot |-> slot, exc |-> m.exc, ret |-> None, mounted |-> TRUE,
                   mountExc |-> m.exc, mountVal |-> None]
             ELSE LET b == branch_name(m.val, osB)
                  IN  IF b.exc = "GitException"
                      THEN [slot |-> None, exc |-> "none", ret |-> None, mounted |-> TRUE,
                            mountExc |-> "none", mountVal |-> m.val]
                      ELSE IF b.exc # "none"
                      THEN [slot |-> slot, exc |-> b.exc, ret |-> None, mounted |-> TRUE,
                            mountExc |-> "none", mountVal |-> m.val]
                      ELSE [slot |-> m.val, exc |-> "none", ret |-> m.val, mounted |-> TRUE,
                            mountExc |-> "none", mountVal |-> m.val]

Idle == [t \in 1..NThreads |-> "idle"]
NoLocal == [t \in 1..NThreads |-> None]
NoRes == [op |-> "none"]
NoGoals == <<>>

InitSingleton ==
    /\ _Git = NO
    /\ mounts = 0
    /\ calls = <<>>
    /\ pc = Idle
    /\ local = NoLocal
    /\ handle = None
    /\ res = NoRes
    /\ goals = NoGoals
    /\ registrar = None

\* A single-threaded caller: each call of get_git() runs to its end.
GetGit ==
    /\ Len(calls) < MaxCalls
    /\ \E osM \in ProcResults(MountOuts), osB \in ProcResults(BranchOuts) :
         LET r == get_git(_Git, osM, osB)
         IN  /\ _Git' = r.slot
             /\ mounts' = mounts + (IF r.mounted THEN 1 ELSE 0)
             /\ calls' = Append(calls, [exc |-> r.exc, ret |-> r.ret, mounted |-> r.mounted,
                                        mountExc |-> r.mountExc, mountVal |-> r.mountVal])
    /\ UNCHANGED <<pc, local, handle, res, goals, registrar>>

NextSeq == GetGit

SpecSeq == InitSingleton /\ [][NextSeq]_vars

\* C1: in a single-threaded process, once a get_git() call has ended by
\* returning (a resolved handle, or absent after a VCS error of discovery),
\* the slot is no longer uninitialized, and every later call returns that
\* same outcome without invoking Git.mount and without failing.
C1_DiscoveryAtMostOnce ==
    \A i \in 1..Len(calls) :
        (calls[i].exc = "none") =>
            /\ _Git # NO
            /\ _Git = calls[i].ret
            /\ \A j \in (i + 1)..Len(calls) :
                 /\ ~calls[j].mounted
                 /\ calls[j].exc = "none"
                 /\ calls[j].ret = calls[i].ret

\* A first call whose discovery failed with the VCS error, followed by a call
\* that returned the cached absent outcome.
C1_Witness ==
    /\ Len(calls) >= 2
    /\ calls[1].mounted /\ calls[1].mountExc = "GitException"
    /\ calls[2].ret = None /\ calls[2].exc = "none" /\ ~calls[2].mounted

\* C2: on the first get_git() call, when Git.mount succeeds with handle h and
\* the call returns, the slot is resolved(h) and the call returns h; the
\* outcome is absent only when Git.mount itself failed with the VCS error.
C2_MountSuccessResolves ==
    \A i \in 1..Len(calls) :
        (calls[i].mounted /\ calls[i].exc = "none") =>
            /\ (calls[i].mountExc = "none" => calls[i].ret = calls[i].mountVal)
            /\ (calls[i].ret = None => calls[i].mountExc = "GitException")

(***************************************************************************)
(* get_git() called by several threads: one action per step of the body    *)
(***************************************************************************)
\* get_git() is entered
Call(t) ==
    /\ pc[t] = "idle"
    /\ Len(calls) < MaxCalls
    /\ pc' = [pc EXCEPT ![t] = "check"]
    /\ UNCHANGED <<_Git, mounts, calls, local, handle, res, goals, registrar>>

\* if _Git is _GitInitialized.NO
Check(t) ==
    /\ pc[t] = "check"
    /\ pc' = [pc EXCEPT ![t] = IF _Git = NO THEN "mount" ELSE "return"]
    /\ UNCHANGED <<_Git, mounts, calls, local, handle, res, goals, registrar>>

\* git = Git.mount()
Mount(t) ==
    /\ pc[t] = "mount"
    /\ \E os \in ProcResults(MountOuts) :
         LET m == mount(None, "git", os)
         IN  /\ mounts' = mounts + 1
             /\ IF m.exc = "none"
                THEN /\ local' = [local EXCEPT ![t] = m.val]
                     /\ pc' = [pc EXCEPT ![t] = "branch"]
                     /\ calls' = calls
                ELSE IF m.exc = "GitException"
                THEN /\ pc' = [pc EXCEPT ![t] = "except"]
                     /\ UNCHANGED <<local, calls>>
                ELSE /\ pc' = [pc EXCEPT ![t] = "idle"]
                     /\ calls' = Append(calls, [thread |-> t, exc |-> m.exc, ret |-> None])
                     /\ local' = local
    /\ UNCHANGED <<_Git, handle, res, goals, registrar>>

\* logger.debug(f"... on branch {git.branch_name}")
Branch(t) ==
    /\ pc[t] = "branch"
    /\ \E os \in ProcResults(BranchOuts) :
         LET b == branch_name(local[t], os)
         IN  IF b.exc = "none"
             THEN /\ pc' = [pc EXCEPT ![t] = "store"]
                  /\ UNCHANGED <<local, calls>>
             ELSE IF b.exc = "GitException"
             THEN /\ pc' = [pc EXCEPT ![t] = "except"]
                  /\ local' = [local EXCEPT ![t] = None]
                  /\ calls' = calls
             ELSE /\ pc' = [pc EXCEPT ![t] = "idle"]
                  /\ local' = [local EXCEPT ![t] = None]
                  /\ calls' = Append(calls, [thread |-> t, exc |-> b.exc, ret |-> None])
    /\ UNCHANGED <<_Git, mounts, handle, res, goals, registrar>>

\* _Git = git
Store(t) ==
    /\ pc[t] = "store"
    /\ _Git' = local[t]
    /\ pc' = [pc EXCEPT ![t] = "return"]
    /\ local' = [local EXCEPT ![t] = None]
    /\ UNCHANGED <<mounts, calls, handle, res, goals, registrar>>

\* except GitException: ... _Git = None
Except(t) ==
    /\ pc[t] = "except"
    /\ _Git' = None
    /\ pc' = [pc EXCEPT ![t] = "return"]
    /\ UNCHANGED <<mounts, calls, local, handle, res, goals, registrar>>

\* return _Git
Return(t) ==
    /\ pc[t] = "return"
    /\ calls' = Append(calls, [thread |-> t, exc |-> "none", ret |-> _Git])
    /\ pc' = [pc EXCEPT ![t] = "idle"]
    /\ UNCHANGED <<_Git, mounts, local, handle, res, goals, registrar>>

NextConc ==
    \E t \in 1..NThreads :
        \/ Call(t)
        \/ Check(t)
        \/ Mount(t)
        \/ Branch(t)
        \/ Store(t)
        \/ Except(t)
        \/ Return(t)

SpecConc == InitSingleton /\ [][NextConc]_vars

\* C3: with threads calling get_git() concurrently, once the slot holds
\* resolved(handle) or absent it is never overwritten and discovery does not
\* run again.
C3_WrittenAtMostOnce ==
    [][(_Git # NO) => (_Git' = _Git /\ mounts' = mounts)]_vars

(***************************************************************************)
(* The Git facade applied to a repository                                  *)
(***************************************************************************)
Binaries == {"git", "/opt/git"}

\* The paths of the repository, relative to the worktree, in the order git
\* lists them.
RepoPaths == << <<"a">>, <<"d", "/", "b">>, <<"d", "/", "c", " ", "e">> >>

\* The states a path can be in: modified in the working tree, changed by a
\* commit of the branch, untracked (then git has no diff for it).
PathStates == {"clean", "modified", "committed", "both", "untracked"}

Modified(repo) == {RepoPaths[i] : i \in {j \in DOMAIN RepoPaths : repo[j] \in {"modified", "both"}}}
Committed(repo) == {RepoPaths[i] : i \in {j \in DOMAIN RepoPaths : repo[j] \in {"committed", "both"}}}
Untracked(repo) == {RepoPaths[i] : i \in {j \in DOMAIN RepoPaths : repo[j] = "untracked"}}

\* git limits its listing to the pathspec after `--`
UnderPathspec(self, p, pathspec) ==
    PurePath_relative_to(PathJoin(self.worktree, PurePath(p)), pathspec).exc = "none"

\* git prints one path per line
RECURSIVE Listing(_, _)
Listing(paths, i) ==
    IF i > Len(RepoPaths) THEN <<>>
    ELSE (IF RepoPaths[i] \in paths THEN RepoPaths[i] \o <<"\n">> ELSE <<>>)
         \o Listing(paths, i + 1)

OkAnswer(out) ==
    [launched |-> TRUE, returncode |-> 0, out |-> out, err |-> [utf8 |-> TRUE, text |-> ""]]

BadAnswers ==
    {a \in ProcResults({<<>>}) : ~a.launched \/ a.returncode # 0 \/ ~a.err.utf8}

Answers(out) == {OkAnswer(out)} \cup BadAnswers

RelativeTos(self) == {None, self.worktree, PathJoin(self.worktree, PurePath(<<"d">>))}

InitGit ==
    /\ _Git = NO
    /\ mounts = 0
    /\ calls = <<>>
    /\ pc = Idle
    /\ local = NoLocal
    /\ handle = None
    /\ res = NoRes
    /\ goals = NoGoals
    /\ registrar = None

\* The facade operations leave the handle alone, so one operation on each
\* freshly obtained handle reaches every (handle, result) pair.
Fresh == handle # None /\ res.op \in {"mount", "Git"}

UnchangedByGit == UNCHANGED <<_Git, mounts, calls, pc, local, goals, registrar>>

\* Git.mount(subdir, binary=...)
MountOp ==
    /\ \E binary \in Binaries, subdir \in {None, Cwd}, os \in ProcResults(MountOuts) :
         LET r == mount(subdir, binary, os)
         IN  /\ handle' = IF r.exc = "none" THEN r.val ELSE handle
             /\ res' = [op |-> "mount", binary |-> binary, launchFailed |-> ~os.launched,
                        result |-> r]
    /\ UnchangedByGit

\* Git(worktree, gitdir=..., binary=...)
Construct ==
    /\ \E worktree \in {None, PurePath(<<"/", "w">>)}, gitdir \in {None, PurePath(<<"g">>)},
          binary \in Binaries :
         /\ handle' = Git__init__(worktree, gitdir, binary)
         /\ res' = [op |-> "Git", binary |-> binary, worktree |-> worktree, gitdir |-> gitdir]
    /\ UnchangedByGit

CommitId ==
    /\ Fresh
    /\ \E os \in Answers(<<"c", "0", "\n">>) :
         res' = [op |-> "commit_id", launchFailed |-> ~os.launched,
                 result |-> commit_id(handle, os)]
    /\ UNCHANGED handle
    /\ UnchangedByGit

BranchName ==
    /\ Fresh
    /\ \E out \in BranchOuts : \E os \in Answers(out) :
         res' = [op |-> "branch_name", launchFailed |-> ~os.launched,
                 result |-> branch_name(handle, os)]
    /\ UNCHANGED handle
    /\ UnchangedByGit

ChangedFiles ==
    /\ Fresh
    /\ \E repo \in [DOMAIN RepoPaths -> PathStates], from_commit \in {"", "main"},
          include_untracked \in BOOLEAN, relative_to \in RelativeTos(handle),
          failAt \in 0..3, bad \in BadAnswers :
         LET pathspec == IF relative_to # None THEN relative_to ELSE handle.worktree
             under(S) == {p \in S : UnderPathspec(handle, p, pathspec)}
             answer(k, S) == IF failAt = k THEN bad ELSE OkAnswer(Listing(under(S), 1))
             launches == {1} \cup (IF from_commit # "" THEN {2} ELSE {})
                             \cup (IF include_untracked THEN {3} ELSE {})
             listed == under(Modified(repo))
                       \cup (IF from_commit # "" THEN under(Committed(repo)) ELSE {})
                       \cup (IF include_untracked THEN under(Untracked(repo)) ELSE {})
         IN  /\ failAt = 0 => bad = CHOOSE a \in BadAnswers : TRUE
             /\ failAt # 0 => repo = [i \in DOMAIN RepoPaths |-> "clean"]
             /\ res' = [op |-> "changed_files", repo |-> repo, from_commit |-> from_commit,
                        include_untracked |-> include_untracked, relative_to |-> pathspec,
                        listed |-> listed,
                        untracked |-> under(Untracked(repo)),
                        failed |-> failAt \in launches,
                        launchFailed |-> failAt \in launches /\ ~bad.launched,
                        result |-> changed_files(handle, from_commit, include_untracked,
                                                 relative_to,
                                                 answer(1, Modified(repo)),
                                                 answer(2, Committed(repo)),
                                                 answer(3, Untracked(repo)))]
    /\ UNCHANGED handle
    /\ UnchangedByGit

ChangesIn ==
    /\ Fresh
    /\ \E changed \in SUBSET Range(RepoPaths), relative_to \in RelativeTos(handle),
          os \in Answers(<<>>) :
         LET pathspec == IF relative_to # None THEN relative_to ELSE handle.worktree
             answer == IF os = OkAnswer(<<>>) THEN OkAnswer(Listing(changed, 1)) ELSE os
         IN  res' = [op |-> "changes_in", listed |-> changed, relative_to |-> pathspec,
                     failed |-> answer.returncode # 0 \/ ~answer.launched,
                     launchFailed |-> ~answer.launched,
                     result |-> changes_in(handle, "HEAD", relative_to, answer)]
    /\ UNCHANGED handle
    /\ UnchangedByGit

Commit ==
    /\ Fresh
    /\ \E os \in Answers(<<>>) :
         res' = [op |-> "commit", launchFailed |-> ~os.launched,
                 result |-> commit(handle, "msg", os)]
    /\ UNCHANGED handle
    /\ UnchangedByGit

Add ==
    /\ Fresh
    /\ \E paths \in {<<>>, <<PurePath(<<"a">>)>>}, os \in Answers(<<>>) :
         res' = [op |-> "add", launchFailed |-> ~os.launched,
                 result |-> add(handle, paths, os)]
    /\ UNCHANGED handle
    /\ UnchangedByGit

NextGit ==
    \/ MountOp
    \/ Construct
    \/ CommitId
    \/ BranchName
    \/ ChangedFiles
    \/ ChangesIn
    \/ Commit
    \/ Add

SpecGit == InitGit /\ [][NextGit]_vars

GitOps == {"mount", "commit_id", "branch_name", "changed_files", "changes_in", "commit", "add"}

\* rel(p): worktree/p expressed relative to relative_to
Rel(p, relative_to) ==
    PathStr(PurePath_relative_to(PathJoin(handle.worktree, PurePath(p)), relative_to).val)

\* C6: every git-invoking operation reports a failure to launch the git
\* binary as GitException; the raw OSError never reaches the caller.
C6_LaunchFailureIsGitException ==
    (res.op \in GitOps /\ res.launchFailed) => res.result.exc = "GitException"

\* C7: when every git command succeeds, changed_files returns exactly
\* {rel(p)} for the paths p that git listed, one path per line; with
\* include_untracked false no untracked path is in the result.
C7_ChangedFilesExact ==
    (res.op = "changed_files" /\ ~res.failed) =>
        /\ res.result.exc = "none"
        /\ res.result.val = {Rel(p, res.relative_to) : p \in res.listed}
        /\ (~res.include_untracked =>
               res.result.val \cap {Rel(p, res.relative_to) : p \in res.untracked} = {})

\* C9: when diff-tree exits with status zero, changes_in returns {rel(p)} for
\* the paths p it reported; it fails only with GitException, and only when
\* the command cannot be launched or exits nonzero.
C9_ChangesInExact ==
    (res.op = "changes_in") =>
        /\ (res.result.exc # "none" => (res.result.exc = "GitException" /\ res.failed))
        /\ (~res.failed /\ res.result.exc = "none" =>
               \A p \in res.listed :
                   UnderPathspec(handle, p, res.relative_to)
                       => Rel(p, res.relative_to) \in res.result.val)

\* C10: the handle returned by mount(subdir, binary) builds command lines
\* that start with that binary, and its gitdir is <worktree>/.git.
C10_MountKeepsBinary ==
    (res.op = "mount" /\ res.result.exc = "none") =>
        /\ _create_git_cmdline(res.result.val, <<>>)[1] = res.binary
        /\ res.result.val._gitdir
             = PathJoin(res.result.val.worktree, PurePath(<<".", "g", "i", "t">>))

(***************************************************************************)
(* Goal registry and Task base type (pants.goal.goal, ...tasks.task)       *)
(***************************************************************************)
GoalNames == {"compile", "gen"}
TaskNames == {"compile", "gen"}
MaxTasks == 3

\* Goal.by_name: the goal of that name, registered on first use
by_name(registry, name) == [registry EXCEPT ![name].registered = TRUE]

Insert(list, i, x) == SubSeq(list, 1, i - 1) \o <<x>> \o SubSeq(list, i, Len(list))

IndexOf(list, x) == CHOOSE i \in 1..Len(list) : list[i] = x /\ \A j \in 1..(i - 1) : list[j] # x

\* Goal.install: the position is the one the placement flag implies, the end
\* of the list by default
Goal_install(otn, task_name, first, replace, before, after) ==
    LET base == IF replace THEN <<>> ELSE otn
    IN  IF first THEN Insert(base, 1, task_name)
        ELSE IF before \in Range(base) THEN Insert(base, IndexOf(base, before), task_name)
        ELSE IF after \in Range(base) THEN Insert(base, IndexOf(base, after) + 1, task_name)
        ELSE Append(base, task_name)

\* Task.__init__(context, workdir): keeps the context it is given
Task__init__(args, kwargs) == [context |-> IF Len(args) >= 1 THEN args[1] ELSE kwargs.context]

(***************************************************************************)
(* class TaskRegistrar                                                     *)
(***************************************************************************)
MaxArgs == 2

\* The actions a registrar can be built from: a Task subclass, or a function
\* with `args` fixed positional parameters of which `defaults` have a default
Callables ==
    {a \in [kind : {"callable"}, args : 0..MaxArgs, varargs : BOOLEAN, keywords : BOOLEAN,
            defaults : 0..1] : a.defaults <= a.args}

Actions == {[kind |-> "task_type", id |-> "CompileTask"]} \cup Callables

\* inspect.getargspec: (args, varargs, keywords, defaults), None where absent
getargspec(action) ==
    [args |-> [i \in 1..action.args |-> i],
     varargs |-> IF action.varargs THEN [name |-> "args"] ELSE None,
     keywords |-> IF action.keywords THEN [name |-> "kwargs"] ELSE None,
     defaults |-> IF action.defaults > 0 THEN [tuple |-> [i \in 1..action.defaults |-> None]]
                  ELSE None]

\* isinstance(type(action), type) and issubclass(action, Task)
IsTaskType(action) == action.kind = "task_type"

\* TaskRegistrar.__init__ accepting up to two fixed positional arguments
TaskRegistrar__init__two_args(name, action, dependencies, serialize) ==
    LET spec == getargspec(action)
    IN  IF IsTaskType(action)
        THEN [exc |-> "none",
              val |-> [name |-> name, serialize |-> serialize, dependencies |-> dependencies,
                       _task |-> action]]
        ELSE IF spec.varargs # None \/ spec.keywords # None \/ spec.defaults # None
        THEN [exc |-> "GoalError",
              msg |-> "Invalid action supplied, cannot accept varargs, keywords or defaults"]
        ELSE IF Len(spec.args) > 2
        THEN [exc |-> "GoalError",
              msg |-> "Invalid action supplied, must accept either no args or else a single Context object"]
        ELSE [exc |-> "none",
              val |-> [name |-> name, serialize |-> serialize, dependencies |-> dependencies,
                       _task |-> [kind |-> "FuncTask", bases |-> <<"Task">>, action |-> action]]]

TaskRegistrar__init__(name, action, dependencies, serialize) ==
    LET spec == getargspec(action)
    IN  IF IsTaskType(action)
        THEN [exc |-> "none",
              val |-> [name |-> name, serialize |-> serialize, dependencies |-> dependencies,
                       _task |-> action]]
        ELSE IF spec.varargs # None \/ spec.keywords # None \/ spec.defaults # None
        THEN [exc |-> "GoalError",
              msg |-> "Invalid action supplied, cannot accept varargs, keywords or defaults"]
        ELSE IF Len(spec.args) > 1
        THEN [exc |-> "GoalError",
              msg |-> "Invalid action supplied, must accept either no args or else a single Context object"]
        ELSE [exc |-> "none",
              val |-> [name |-> name, serialize |-> serialize, dependencies |-> dependencies,
                       _task |-> [kind |-> "FuncTask", bases |-> <<"Task">>, action |-> action]]]

task_type(self) == self._task

\* FuncTask.__init__(self, *args, **kwargs): `args` are the constructor's own
\* positional arguments; self.action is the callable with the arguments bound
\* to it so far
FuncTask__init__(action, args, kwargs) ==
    LET self == Task__init__(args, kwargs)
    IN  IF Len(args) = 0
        THEN [exc |-> "none", val |-> [context |-> self.context, func |-> action, bound |-> <<>>]]
        ELSE IF Len(args) = 1
        THEN [exc |-> "none",
              val |-> [context |-> self.context, func |-> action, bound |-> <<self.context>>]]
        ELSE [exc |-> "AssertionError", msg |-> "Unexpected fallthrough"]

\* FuncTask.execute: self.action(); a function called with the wrong number
\* of arguments raises TypeError
execute(self) ==
    [exc |-> IF Len(self.bound) = self.func.args THEN "none" ELSE "TypeError",
     calledWith |-> self.bound]

\* TaskRegistrar.install: goal "" stands for a falsy goal (None or the empty
\* string).  lookup: the name given to Goal.by_name; requests: the calls of
\* Goal.install made on the goal looked up; ret: the goal returned.
install_own_goal(self, goal, first, replace, before, after) ==
    [lookup |-> self.name,
     requests |-> <<[task_name |-> self.name, first |-> first, replace |-> replace,
                     before |-> before, after |-> after]>>,
     ret |-> self.name]

install(self, goal, first, replace, before, after) ==
    [lookup |-> IF goal # "" THEN goal ELSE self.name,
     requests |-> <<[task_name |-> self.name, first |-> first, replace |-> replace,
                     before |-> before, after |-> after]>>,
     ret |-> IF goal # "" THEN goal ELSE self.name]

InitReg ==
    /\ _Git = NO
    /\ mounts = 0
    /\ calls = <<>>
    /\ pc = Idle
    /\ local = NoLocal
    /\ handle = None
    /\ res = NoRes
    /\ goals = [g \in GoalNames |-> [registered |-> FALSE, ordered_task_names |-> <<>>]]
    /\ registrar = None

UnchangedByReg == UNCHANGED <<_Git, mounts, calls, pc, local, handle>>

Contexts == {"ctx1", "ctx2"}

\* TaskRegistrar(name, action, dependencies, serialize)
Construction(actions) ==
    /\ \E name \in TaskNames, action \in actions,
          dependencies \in {<<>>, <<"compile">>}, serialize \in BOOLEAN :
         LET r == TaskRegistrar__init__(name, action, dependencies, serialize)
         IN  /\ res' = [op |-> "TaskRegistrar", action |-> action, result |-> r]
             /\ registrar' = IF r.exc = "none" THEN r.val ELSE registrar
             /\ goals' = IF Len(dependencies) = 0 THEN goals ELSE by_name(goals, dependencies[1])
    /\ UnchangedByReg

\* a registrar built from any action
NewRegistrar == Construction(Actions)

\* a registrar built from a Task subclass
NewTaskRegistrar == Construction({a \in Actions : IsTaskType(a)})

\* registrar.task_type(*args, **kwargs) for a generated FuncTask: the context
\* and the workdir are passed positionally or by keyword
Instantiate ==
    /\ registrar # None
    /\ task_type(registrar).kind = "FuncTask"
    /\ \E context \in Contexts, npos \in 0..2 :
         LET args == SubSeq(<<context, "workdir">>, 1, npos)
             kwargs == [context |-> context, workdir |-> "workdir"]
             r == FuncTask__init__(task_type(registrar).action, args, kwargs)
         IN  res' = [op |-> "FuncTask", action |-> task_type(registrar).action,
                     context |-> context, npos |-> npos, result |-> r]
    /\ UNCHANGED <<goals, registrar>>
    /\ UnchangedByReg

\* task.execute()
Execute ==
    /\ res.op = "FuncTask"
    /\ res.result.exc = "none"
    /\ res' = [op |-> "execute", action |-> res.action, context |-> res.context,
               npos |-> res.npos, result |-> execute(res.result.val)]
    /\ UNCHANGED <<goals, registrar>>
    /\ UnchangedByReg

\* registrar.install(goal, first, replace, before, after), with at most one
\* placement flag
Install ==
    /\ registrar # None
    /\ \E goal \in GoalNames \cup {""}, first \in BOOLEAN, replace \in BOOLEAN,
          before \in TaskNames \cup {""}, after \in TaskNames \cup {""} :
         LET r == install(registrar, goal, first, replace, before, after)
             g == r.lookup
             resolved == by_name(goals, g)
             placed(otn, q) ==
                 Goal_install(otn, q.task_name, q.first, q.replace, q.before, q.after)
             otn == IF Len(r.requests) = 1
                    THEN placed(resolved[g].ordered_task_names, r.requests[1])
                    ELSE resolved[g].ordered_task_names
         IN  /\ Cardinality({f \in {"first", "replace", "before", "after"} :
                               \/ f = "first" /\ first
                               \/ f = "replace" /\ replace
                               \/ f = "before" /\ before # ""
                               \/ f = "after" /\ after # ""}) <= 1
             /\ g \in GoalNames
             /\ Len(otn) <= MaxTasks
             /\ goals' = [resolved EXCEPT ![g].ordered_task_names = otn]
             /\ res' = [op |-> "install", goal |-> goal, first |-> first, replace |-> replace,
                        before |-> before, after |-> after, name |-> registrar.name,
                        old |-> goals[g].ordered_task_names, result |-> r]
    /\ UNCHANGED registrar
    /\ UnchangedByReg

\* Construction of registrars and of the tasks they generate
NextTask ==
    \/ NewRegistrar
    \/ Instantiate
    \/ Execute

SpecTask == InitReg /\ [][NextTask]_vars

\* Installation of registrars into goals
NextInstall ==
    \/ NewTaskRegistrar
    \/ Install

SpecInstall == InitReg /\ [][NextInstall]_vars

NoFlags(r) == ~r.first /\ ~r.replace /\ r.before = "" /\ r.after = ""

\* C4: execute() of the generated task calls a zero-argument callable with no
\* arguments and a one-argument callable with exactly the task's context,
\* however the task was constructed.
C4_StrategyByArity ==
    (res.op = "execute") =>
        /\ res.result.exc = "none"
        /\ res.result.calledWith = IF res.action.args = 0 THEN <<>> ELSE <<res.context>>

\* C5: construction from a plain callable fails with the invalid-action error
\* exactly when the signature has varargs, keywords, defaults or more than one
\* fixed positional argument; otherwise task_type is a generated Task
\* subclass; a Task subclass given as action is task_type itself, unchecked.
C5_InvalidActionIff ==
    (res.op = "TaskRegistrar") =>
        LET a == res.action
            r == res.result
        IN  IF a.kind = "task_type"
            THEN r.exc = "none" /\ task_type(r.val) = a
            ELSE /\ (r.exc = "GoalError")
                        <=> (a.varargs \/ a.keywords \/ a.defaults > 0 \/ a.args > 1)
                 /\ (r.exc # "GoalError" =>
                        /\ r.exc = "none"
                        /\ task_type(r.val).kind = "FuncTask"
                        /\ "Task" \in Range(task_type(r.val).bases)
                        /\ task_type(r.val).action = a)

\* A callable with two fixed positional arguments and nothing else was
\* rejected.
C5_Witness ==
    /\ res.op = "TaskRegistrar"
    /\ res.action.kind = "callable"
    /\ res.action.args = 2 /\ ~res.action.varargs /\ ~res.action.keywords
    /\ res.action.defaults = 0
    /\ res.result.exc = "GoalError"

\* C8: install looks the goal up by the given name, or by the registrar's own
\* name when none is given, makes exactly one insertion request with the
\* placement flags unchanged and returns the goal looked up; with no
\* placement flag the task is last in the goal's list and the tasks already
\* there keep their order.
C8_InstallResolvesAndAppends ==
    (res.op = "install") =>
        LET r == res.result
            g == IF res.goal # "" THEN res.goal ELSE res.name
        IN  /\ r.lookup = g
            /\ r.ret = g
            /\ r.requests = <<[task_name |-> res.name, first |-> res.first,
                               replace |-> res.replace, before |-> res.before,
                               after |-> res.after]>>
            /\ goals[g].registered
            /\ (NoFlags(res) => goals[g].ordered_task_names = Append(res.old, res.name))

\* A registrar was installed without placement flags into a goal named
\* differently from it, which already held two different tasks.
C8_Witness ==
    /\ res.op = "install"
    /\ res.goal # "" /\ res.goal # res.name
    /\ NoFlags(res)
    /\ Len(res.old) = 2 /\ res.old[1] # res.old[2]
    /\ goals[res.goal].ordered_task_names = Append(res.old, res.name)

=============================================================================
